---- MODULE Spec2Model ----
(***************************************************************************)
(* Sales comparison app (main.py, src/data_processing.py,                  *)
(* src/visualizations.py): one run of the Streamlit script, from the two   *)
(* uploaded files to the four tabs.                                        *)
(*                                                                         *)
(* Conventions of the model                                                *)
(*  - a text value (an identifier after astype(str)) is a sequence of      *)
(*    one-character strings, so that the regular expression of the loader  *)
(*    is computed on characters;                                           *)
(*  - a monetary amount is an integer number of thousandths; after the     *)
(*    loader's round(2) it is a multiple of 10;                            *)
(*  - a float computed by pandas (a growth percentage) is a record         *)
(*    [k, n, d]: k = "fin" is the number n/d, k = "inf"/"ninf"/"nan" are   *)
(*    the IEEE values, k = "blank" is the empty string '' that the final   *)
(*    fillna('') puts in place of NaN;                                     *)
(*  - a cell of a label column is a string; NaN is the string "NaN", the   *)
(*    integer 0 that fillna(0) writes is the string "0".                   *)
(***************************************************************************)
EXTENDS Integers, Sequences, FiniteSets, TLC

VARIABLES
    prev_year_file,   \* main.py:83  the uploaded file "Năm Trước" (or NoFile)
    curr_year_file,   \* main.py:84  the uploaded file "Năm Nay" (or NoFile)
    selection,        \* main.py:97,108,125,137  what the user picked in the four multiselects
    df_prev,          \* main.py:88
    df_curr,          \* main.py:89
    report_prev,      \* what load_and_validate_data logged/showed for "Năm Trước"
    report_curr,      \* what load_and_validate_data logged/showed for "Năm Nay"
    filters,          \* main.py:141
    summary,          \* main.py:150
    overview,         \* what plot_overview computed and showed
    product_tab,      \* what plot_product_analysis computed and showed
    customer_tab,     \* what plot_customer_analysis computed and showed
    tdv_tab,          \* what plot_tdv_analysis computed and showed
    now,              \* the date pd.Timestamp.now() gives during the run
    pc                \* position of the script

vars == <<prev_year_file, curr_year_file, selection, df_prev, df_curr, report_prev,
          report_curr, filters, summary, overview, product_tab, customer_tab, tdv_tab,
          now, pc>>

-----------------------------------------------------------------------------
(* Bounds of the model.                                                    *)

\* longest raw table (rows of one uploaded sheet) in the loader specification
MaxRawRows == 2
\* longest identifier text in the normalisation specification
MaxIdLen == 5
\* most rows of the two sheets together in the aggregation specification
MaxAggRows == 3
\* most rows of the two sheets together in the filter specification
MaxFilterRows == 2
\* most rows of the current sheet in the RFM and clock specifications
MaxRfmRows == 3

-----------------------------------------------------------------------------
(* Sequences and text.                                                     *)

Range(s) == {s[i] : i \in 1..Len(s)}

RECURSIVE SeqSum(_)
SeqSum(s) == IF s = <<>> THEN 0 ELSE Head(s) + SeqSum(Tail(s))

\* all sequences over S of length 0..n
SeqsUpTo(S, n) == UNION {[1..k -> S] : k \in 0..n}

\* the ten digits, and the ASCII order of the characters the model uses
DigitChars == <<"0", "1", "2", "3", "4", "5", "6", "7", "8", "9">>

CharOrd(c) ==
    IF \E i \in 1..10 : DigitChars[i] = c
    THEN 47 + (CHOOSE i \in 1..10 : DigitChars[i] = c)
    ELSE CASE c = "\n" -> 10
           [] c = "." -> 46
           [] c = "a" -> 97
           [] c = "n" -> 110
           [] OTHER -> 127

\* s < t in Python's string order
RECURSIVE StrLess(_, _)
StrLess(s, t) ==
    IF t = <<>> THEN FALSE
    ELSE IF s = <<>> THEN TRUE
    ELSE IF Head(s) = Head(t) THEN StrLess(Tail(s), Tail(t))
    ELSE CharOrd(Head(s)) < CharOrd(Head(t))

\* the elements of a finite set of texts, in ascending order
RECURSIVE SortedTexts(_)
SortedTexts(S) ==
    IF S = {} THEN <<>>
    ELSE LET m == CHOOSE x \in S : \A y \in S \ {x} : StrLess(x, y)
         IN  <<m>> \o SortedTexts(S \ {m})

\* decimal digits of a natural number
RECURSIVE Digits(_)
Digits(n) ==
    IF n < 10 THEN <<DigitChars[n + 1]>>
    ELSE Digits(n \div 10) \o <<DigitChars[(n % 10) + 1]>>

-----------------------------------------------------------------------------
(* The loader: load_and_validate_data (src/data_processing.py).            *)
(*                                                                         *)
(* An uploaded file is [readable, columns, rows]; a raw row has one cell   *)
(* per required column the model follows (Program and Product Hierarchy    *)
(* are only looked up by the column check):                                *)
(*   date  "Billing Date"   [k, y, m, d]  k = "dmy": the text d/m/y of a   *)
(*                          calendar date; "junk": any other text;         *)
(*                          "empty": an empty cell                         *)
(*   Customer, Material     [k, n, s]  k = "int": the integer n; "float":  *)
(*                          the float n.0; "str": the text s; "nan"        *)
(*   Name, ItemDescription  a string, "NaN" for an empty cell              *)
(*   qty "Số Lượng", price "Đơn Giá", ds "DS Ðã Trừ CK"                    *)
(*                          [k, v]  k = "num": the number v/1000;          *)
(*                          "numstr": a text that reads as v/1000;         *)
(*                          "text": any other text; "nan": an empty cell   *)
(*   tdv "Tên TDV"          a string, "NaN" for an empty cell              *)
(***************************************************************************)

NoFile == [uploaded |-> FALSE, readable |-> FALSE, columns |-> {}, rows |-> <<>>]

\* the DataFrame values of the script: None, a frame, or not assigned yet
None == [st |-> "none", rows |-> <<>>]
Unset == [st |-> "unset", rows |-> <<>>]
Frame(rows) == [st |-> "frame", rows |-> rows]

required_columns ==
    <<"Billing Date", "Customer", "Name", "Material", "Item Description",
      "So Luong", "Don Gia", "DS Da Tru CK", "Program", "Product Hierarchy", "Ten TDV">>

\* pd.to_datetime(..., dayfirst=True, errors="coerce") on one cell
NaT == [nat |-> TRUE, y |-> 0, m |-> 0, d |-> 0]

to_datetime(cell) ==
    IF cell.k = "dmy" THEN [nat |-> FALSE, y |-> cell.y, m |-> cell.m, d |-> cell.d]
    ELSE NaT

\* Series.astype(str) on one identifier cell
astype_str(cell) ==
    CASE cell.k = "int" -> Digits(cell.n)
      [] cell.k = "float" -> Digits(cell.n) \o <<".", "0">>
      [] cell.k = "nan" -> <<"n", "a", "n">>
      [] OTHER -> cell.s

\* where the pattern \.0+$ matches in s: the dot is at i, only zeros (at least
\* one) follow up to e, and e is the end of s or stands before a final newline
TailMatches(s) ==
    {<<i, e>> \in (1..Len(s)) \X (1..Len(s)) :
        /\ s[i] = "."
        /\ i < e
        /\ \A j \in (i + 1)..e : s[j] = "0"
        /\ \/ e = Len(s)
           \/ e = Len(s) - 1 /\ s[Len(s)] = "\n"}

\* Series.str.replace(r"\.0+$", "", regex=True) on one text
str_replace_tail(s) ==
    IF TailMatches(s) = {} THEN s
    ELSE LET hit == CHOOSE h \in TailMatches(s) : \A m \in TailMatches(s) : h[1] <= m[1]
         IN  SubSeq(s, 1, hit[1] - 1) \o SubSeq(s, hit[2] + 1, Len(s))

\* the identifier clean-up of the loader, lines 41-42
CleanId(cell) == str_replace_tail(astype_str(cell))

\* pd.to_numeric(..., errors="coerce") on one cell
NaN == [nan |-> TRUE, v |-> 0]

to_numeric(cell) ==
    IF cell.k \in {"num", "numstr"} THEN [nan |-> FALSE, v |-> cell.v] ELSE NaN

\* Series.round(2) on a number of thousandths: to the nearest hundredth, a tie to
\* the even hundredth
round2(v) ==
    LET q == v \div 10
        r == v % 10
    IN  IF r < 5 THEN 10 * q
        ELSE IF r > 5 THEN 10 * (q + 1)
        ELSE IF q % 2 = 0 THEN 10 * q ELSE 10 * (q + 1)

\* the rows of the sheet with their index label, as pd.read_excel numbers them
Indexed(rows) == [i \in 1..Len(rows) |-> [idx |-> i - 1, row |-> rows[i]]]

MapSeq(s, Op(_)) == [i \in 1..Len(s) |-> Op(s[i])]

\* the column check forgetting the last required column
missing_cols_first_ten(file) ==
    SelectSeq(SubSeq(required_columns, 1, 10), LAMBDA col : col \notin file.columns)

\* line 26
missing_cols(file) == SelectSeq(required_columns, LAMBDA col : col \notin file.columns)

\* lines 33-34: the date column parsed
ParsedDates(file) ==
    MapSeq(Indexed(file.rows),
           LAMBDA x : [idx |-> x.idx, row |-> [x.row EXCEPT !.date = to_datetime(x.row.date)]])

\* line 34
invalid_dates(file) == SelectSeq(ParsedDates(file), LAMBDA x : x.row.date.nat)

\* line 38
AfterDateDrop(file) == SelectSeq(ParsedDates(file), LAMBDA x : ~x.row.date.nat)

\* lines 41-47 on one row: identifiers cleaned, the three numeric columns coerced
CoerceRow(x) ==
    [idx |-> x.idx,
     row |-> [x.row EXCEPT !.Customer = CleanId(x.row.Customer),
                           !.Material = CleanId(x.row.Material),
                           !.qty = to_numeric(x.row.qty),
                           !.price = to_numeric(x.row.price),
                           !.ds = to_numeric(x.row.ds)]]

Coerced(file) == MapSeq(AfterDateDrop(file), CoerceRow)

\* the NaN test looking at the amount column alone
AnyNaN_amount_only(x) == x.row.ds.nan

\* df[numeric_cols].isna().any(axis=1), lines 48 and 52
AnyNaN(x) == x.row.qty.nan \/ x.row.price.nan \/ x.row.ds.nan

\* the numeric check run on the sheet before the rows without a date are dropped
invalid_numeric_before_drop(file) == SelectSeq(MapSeq(ParsedDates(file), CoerceRow), AnyNaN)

\* line 48
invalid_numeric(file) == SelectSeq(Coerced(file), AnyNaN)

\* lines 52-57: the rows returned, in the typed form the rest of the script reads
Validated(file) ==
    MapSeq(SelectSeq(Coerced(file), LAMBDA x : ~AnyNaN(x)),
           LAMBDA x : [idx |-> x.idx,
                       date |-> [y |-> x.row.date.y, m |-> x.row.date.m, d |-> x.row.date.d],
                       Customer |-> x.row.Customer,
                       Name |-> x.row.Name,
                       Material |-> x.row.Material,
                       ItemDescription |-> x.row.ItemDescription,
                       qty |-> x.row.qty.v,
                       price |-> x.row.price.v,
                       ds |-> round2(x.row.ds.v),
                       tdv |-> x.row.tdv])

IdxOf(s) == MapSeq(s, LAMBDA x : x.idx)

NoReport ==
    [error |-> "none", missing |-> <<>>, invalid_dates |-> <<>>, invalid_numeric |-> <<>>,
     steps |-> <<>>]

\* load_and_validate_data(file, year_label): the value returned and what was
\* reported (st.error / st.warning / log_error) on the way; steps lists the
\* stages of the body that ran
load_and_validate_data(file) ==
    IF ~file.readable
    THEN [df |-> None,
          report |-> [NoReport EXCEPT !.error = "processing", !.steps = <<"read_excel">>]]
    ELSE IF missing_cols(file) # <<>>
    THEN [df |-> None,
          report |-> [NoReport EXCEPT !.error = "schema", !.missing = missing_cols(file),
                                      !.steps = <<"read_excel", "columns">>]]
    ELSE [df |-> Frame(Validated(file)),
          report |-> [NoReport EXCEPT
                        !.invalid_dates = IdxOf(invalid_dates(file)),
                        !.invalid_numeric = IdxOf(invalid_numeric(file)),
                        !.steps = <<"read_excel", "columns", "dates", "ids", "numeric",
                                    "dropna", "round">>]]

-----------------------------------------------------------------------------
(* The sidebar of main.py: the filter widgets and the filters dict.        *)

months == 1..12

\* the values of column f of the rows, without repetition, in order of first
\* appearance (drop_duplicates keeps the first)
RECURSIVE FirstSeen(_, _)
FirstSeen(vals, seen) ==
    IF vals = <<>> THEN <<>>
    ELSE IF Head(vals) \in seen THEN FirstSeen(Tail(vals), seen)
    ELSE <<Head(vals)>> \o FirstSeen(Tail(vals), seen \cup {Head(vals)})

Column(rows, Get(_)) == [i \in 1..Len(rows) |-> Get(rows[i])]

\* main.py:100-103, the index of customer_data
customer_data(prev, curr) ==
    FirstSeen(Column(prev, LAMBDA r : r.Customer) \o Column(curr, LAMBDA r : r.Customer), {})

\* main.py:117-120, the index of material_data
material_data(prev, curr) ==
    FirstSeen(Column(prev, LAMBDA r : r.Material) \o Column(curr, LAMBDA r : r.Material), {})

\* the sales representatives of the model, in sorted() order
TdvSorted == <<"T1", "T2">>

\* main.py:134-136
tdv_options(prev, curr) ==
    SelectSeq(TdvSorted,
              LAMBDA t : \E r \in Range(prev) \cup Range(curr) : r.tdv = t)

\* the filters dict taking the month selection as it is
build_filters_months_as_selected(prev, curr, sel) ==
    [months    |-> SelectSeq([i \in 1..12 |-> i], LAMBDA m : m \in sel.months),
     customers |-> SelectSeq(customer_data(prev, curr), LAMBDA c : c \in sel.customers),
     materials |-> SelectSeq(material_data(prev, curr), LAMBDA c : c \in sel.materials),
     tdvs      |-> SelectSeq(tdv_options(prev, curr), LAMBDA t : t \in sel.tdvs),
     set       |-> TRUE]

\* main.py:96-146. sel holds, per widget, the set of values the user has ticked;
\* a multiselect returns the ticked values that are among its options
build_filters(prev, curr, sel) ==
    [months    |-> IF SelectSeq([i \in 1..12 |-> i], LAMBDA m : m \in sel.months) # <<>>
                   THEN SelectSeq([i \in 1..12 |-> i], LAMBDA m : m \in sel.months)
                   ELSE [i \in 1..12 |-> i],
     customers |-> SelectSeq(customer_data(prev, curr), LAMBDA c : c \in sel.customers),
     materials |-> SelectSeq(material_data(prev, curr), LAMBDA c : c \in sel.materials),
     tdvs      |-> SelectSeq(tdv_options(prev, curr), LAMBDA t : t \in sel.tdvs),
     set       |-> TRUE]

-----------------------------------------------------------------------------
(* The filter of the tab functions (src/visualizations.py).                *)

\* df[df['Billing Date'].dt.month.isin(filters['months'])]
by_months(rows, f) == SelectSeq(rows, LAMBDA r : r.date.m \in Range(f.months))

\* the customer restriction left out
by_customers_ignored(rows, f) == rows

\* if filters['customers']: df[df['Customer'].isin(filters['customers'])]
by_customers(rows, f) ==
    IF f.customers # <<>> THEN SelectSeq(rows, LAMBDA r : r.Customer \in Range(f.customers))
    ELSE rows

\* if filters['materials']: df[df['Material'].isin(filters['materials'])]
by_materials(rows, f) ==
    IF f.materials # <<>> THEN SelectSeq(rows, LAMBDA r : r.Material \in Range(f.materials))
    ELSE rows

\* if filters['tdvs']: df[df['Tên TDV'].isin(filters['tdvs'])]
by_tdvs(rows, f) ==
    IF f.tdvs # <<>> THEN SelectSeq(rows, LAMBDA r : r.tdv \in Range(f.tdvs))
    ELSE rows

\* lines 61-71 (Overview), 174-184 (Product), 249-259 (Customer)
filter_rows(rows, f) == by_tdvs(by_materials(by_customers(by_months(rows, f), f), f), f)

\* the months and sales reps only
filter_rows_tdv_reps_only(rows, f) == by_tdvs(by_months(rows, f), f)

\* lines 362-372 (TDV): sales reps first, customers last
filter_rows_tdv(rows, f) == by_customers(by_materials(by_tdvs(by_months(rows, f), f), f), f)

-----------------------------------------------------------------------------
(* Floats.                                                                 *)

Fin(n, d) == [k |-> "fin", n |-> n, d |-> d]
Inf == [k |-> "inf", n |-> 0, d |-> 1]
NegInf == [k |-> "ninf", n |-> 0, d |-> 1]
NaNf == [k |-> "nan", n |-> 0, d |-> 1]
Blank == [k |-> "blank", n |-> 0, d |-> 1]

IsZero(x) == x.k = "fin" /\ x.n = 0
SameNumber(x, y) == x.k = "fin" /\ y.k = "fin" /\ x.n * y.d = y.n * x.d

\* (curr - prev) / prev * 100 on two float columns: x/0 is +-inf, 0/0 is NaN
series_growth(prev, curr) ==
    IF prev # 0 THEN Fin((curr - prev) * 100, prev)
    ELSE IF curr - prev > 0 THEN Inf
    ELSE IF curr - prev < 0 THEN NegInf
    ELSE NaNf

\* .replace([float('inf'), -float('inf')], 0)
replace_inf(x) == IF x.k \in {"inf", "ninf"} THEN Fin(0, 1) ELSE x

\* the grown column of a merged table, lines 93, 126, 193, 268, 413
growth_column(prev, curr) == replace_inf(series_growth(prev, curr))

\* the scalar growth without its "if p else 0" guard
scalar_growth_unguarded(prev, curr) == series_growth(prev, curr)

\* (c - p) / p * 100 if p else 0, lines 79, 97, 130, 197, 272, 417
scalar_growth(prev, curr) == IF prev # 0 THEN Fin((curr - prev) * 100, prev) ELSE Fin(0, 1)

\* the final .fillna('') of a table on a float cell
fillna_blank(x) == IF x.k = "nan" THEN Blank ELSE x

-----------------------------------------------------------------------------
(* Aggregation (src/visualizations.py).                                    *)

Amounts(rows) == Column(rows, LAMBDA r : r.ds)

\* df['DS Ðã Trừ CK'].sum() if not df.empty else 0
total_of(rows) == SeqSum(Amounts(rows))

\* agg 'first': the first value of the group that is not null, NaN when all are
first_label(labels) ==
    IF SelectSeq(labels, LAMBDA n : n # "NaN") = <<>> THEN "NaN"
    ELSE Head(SelectSeq(labels, LAMBDA n : n # "NaN"))

\* df.groupby(key).agg({'DS Ðã Trừ CK': 'sum', label: 'first'}).reset_index():
\* one row per key value, keys ascending
grouped(rows, Key(_), Label(_)) ==
    LET keys == SortedTexts({Key(r) : r \in Range(rows)})
    IN  [i \in 1..Len(keys) |->
            LET g == SelectSeq(rows, LAMBDA r : Key(r) = keys[i])
            IN  [key |-> keys[i], ds |-> total_of(g),
                 label |-> first_label(Column(g, Label))]]

\* the merge done with how='inner': only the keys both sides have
merged_inner(gprev, gcurr) ==
    LET keys == SortedTexts({g.key : g \in Range(gprev)} \cap {g.key : g \in Range(gcurr)})
        Side(gs, k) == SelectSeq(gs, LAMBDA g : g.key = k)
        LabelOf(gs, k) == IF Head(Side(gs, k)).label = "NaN" THEN "0" ELSE Head(Side(gs, k)).label
        AmountOf(gs, k) == Head(Side(gs, k)).ds
    IN  [i \in 1..Len(keys) |->
            [id |-> keys[i],
             label_prev |-> LabelOf(gprev, keys[i]),
             amount_prev |-> AmountOf(gprev, keys[i]),
             label_curr |-> LabelOf(gcurr, keys[i]),
             amount_curr |-> AmountOf(gcurr, keys[i]),
             growth |-> growth_column(AmountOf(gprev, keys[i]), AmountOf(gcurr, keys[i]))]]

\* prev.merge(curr, on=key, how='outer', suffixes=('_prev', '_curr')).fillna(0)
\* with the growth column: one row per key of either side, keys ascending; the
\* cells of an absent side, and a label that is NaN, become the integer 0 (a
\* side that is the empty pd.DataFrame(columns=...) has object columns, which
\* fillna(0) turns into integer columns before the division)
merged(gprev, gcurr) ==
    LET keys == SortedTexts({g.key : g \in Range(gprev) \cup Range(gcurr)})
        Side(gs, k) == SelectSeq(gs, LAMBDA g : g.key = k)
        LabelOf(gs, k) ==
            IF Side(gs, k) = <<>> \/ Head(Side(gs, k)).label = "NaN" THEN "0"
            ELSE Head(Side(gs, k)).label
        AmountOf(gs, k) == IF Side(gs, k) = <<>> THEN 0 ELSE Head(Side(gs, k)).ds
    IN  [i \in 1..Len(keys) |->
            [id |-> keys[i],
             label_prev |-> LabelOf(gprev, keys[i]),
             amount_prev |-> AmountOf(gprev, keys[i]),
             label_curr |-> LabelOf(gcurr, keys[i]),
             amount_curr |-> AmountOf(gcurr, keys[i]),
             growth |-> growth_column(AmountOf(gprev, keys[i]), AmountOf(gcurr, keys[i]))]]

\* the total_row frame summing the current column into both totals
total_row_curr_twice(m) ==
    LET sc == SeqSum(Column(m, LAMBDA x : x.amount_curr))
    IN  [id |-> <<>>, label_prev |-> "", amount_prev |-> sc, label_curr |-> "",
         amount_curr |-> sc, growth |-> scalar_growth(sc, sc)]

\* the total_row frame, lines 94-98, 127-131, 194-198, 269-273, 414-418
total_row(m) ==
    LET sp == SeqSum(Column(m, LAMBDA x : x.amount_prev))
        sc == SeqSum(Column(m, LAMBDA x : x.amount_curr))
    IN  [id |-> <<>>, label_prev |-> "", amount_prev |-> sp, label_curr |-> "",
         amount_curr |-> sc, growth |-> scalar_growth(sp, sc)]

\* pd.concat([merged[...], total_row]).fillna('')
concat_total(m) ==
    MapSeq(m \o <<total_row(m)>>, LAMBDA x : [x EXCEPT !.growth = fillna_blank(x.growth)])

\* a comparison table of two filtered datasets on one key, lines 90-99, 123-132,
\* 189-199, 265-274, 410-419
comparison_table(prev, curr, Key(_), Label(_)) ==
    concat_total(merged(grouped(prev, Key, Label), grouped(curr, Key, Label)))

customer_table_of(prev, curr) ==
    comparison_table(prev, curr, LAMBDA r : r.Customer, LAMBDA r : r.Name)

product_table_of(prev, curr) ==
    comparison_table(prev, curr, LAMBDA r : r.Material, LAMBDA r : r.ItemDescription)

NonTotalRows(table) == SubSeq(table, 1, Len(table) - 1)
TotalRow(table) == table[Len(table)]

\* st.dataframe(table.style.format({..., 'Tăng trưởng (%)': '{:.2f}%'})): the
\* format of a float raises ValueError on the '' that fillna('') wrote
render_raises(table) == \E i \in 1..Len(table) : table[i].growth.k = "blank"

\* the count of line items, whatever order they belong to
num_orders_rows(rows) == Len(rows)

\* df.groupby(['Customer', df['Billing Date'].dt.date]).ngroups if not df.empty else 0
num_orders(rows) == Cardinality({<<r.Customer, r.date>> : r \in Range(rows)})

\* df.groupby('Tên TDV')['DS Ðã Trừ CK'].sum().reset_index(): NaN keys are left out
tdv_grouped(rows) ==
    LET keys == SelectSeq(TdvSorted, LAMBDA t : \E r \in Range(rows) : r.tdv = t)
    IN  [i \in 1..Len(keys) |->
            [tdv |-> keys[i],
             ds |-> total_of(SelectSeq(rows, LAMBDA r : r.tdv = keys[i]))]]

\* df.groupby(df['Billing Date'].dt.month)['DS Ðã Trừ CK'].sum(), lines 156-157
trend(rows) ==
    LET ms == SelectSeq([i \in 1..12 |-> i], LAMBDA m : \E r \in Range(rows) : r.date.m = m)
    IN  [i \in 1..Len(ms) |->
            [month |-> ms[i], ds |-> total_of(SelectSeq(rows, LAMBDA r : r.date.m = ms[i]))]]

\* df.groupby([df['Billing Date'].dt.month, key])['DS Ðã Trừ CK'].sum().reset_index()
\* for a text key (Material, Customer), lines 227-228, 340-341
RECURSIVE Flatten(_)
Flatten(ss) == IF ss = <<>> THEN <<>> ELSE Head(ss) \o Flatten(Tail(ss))

trend_by(rows, Key(_)) ==
    LET ms == SelectSeq([i \in 1..12 |-> i], LAMBDA m : \E r \in Range(rows) : r.date.m = m)
        OfMonth(m) == SelectSeq(rows, LAMBDA r : r.date.m = m)
        Keys(m) == SortedTexts({Key(r) : r \in Range(OfMonth(m))})
    IN  Flatten([i \in 1..Len(ms) |->
                    [j \in 1..Len(Keys(ms[i])) |->
                        [month |-> ms[i], key |-> Keys(ms[i])[j],
                         ds |-> total_of(SelectSeq(OfMonth(ms[i]),
                                                   LAMBDA r : Key(r) = Keys(ms[i])[j]))]]])

\* the same grouping on (month, 'Tên TDV'), lines 392-393
trend_by_tdv(rows) ==
    LET ms == SelectSeq([i \in 1..12 |-> i], LAMBDA m : \E r \in Range(rows) : r.date.m = m)
        OfMonth(m) == SelectSeq(rows, LAMBDA r : r.date.m = m)
    IN  Flatten([i \in 1..Len(ms) |->
                    MapSeq(tdv_grouped(OfMonth(ms[i])),
                           LAMBDA g : [month |-> ms[i], key |-> g.tdv, ds |-> g.ds])])

-----------------------------------------------------------------------------
(* The four tab functions. Each returns what the tab computed and, in      *)
(* shown, the panels it put on the page before it returned or raised; the  *)
(* except clause of the function turns a raise into status "error".        *)

NoOutput ==
    [status |-> "unset", df_prev_filtered |-> <<>>, df_curr_filtered |-> <<>>,
     total_prev |-> 0, total_curr |-> 0, growth |-> Fin(0, 1),
     num_orders_prev |-> 0, num_orders_curr |-> 0,
     customer_table |-> <<>>, product_table |-> <<>>, rep_tables |-> <<>>,
     tdv_prev |-> <<>>, tdv_curr |-> <<>>, trend_prev |-> <<>>, trend_curr |-> <<>>,
     shown |-> <<>>]

\* lines 57-168
plot_overview(prev, curr, f) ==
    LET pf == filter_rows(prev, f)
        cf == filter_rows(curr, f)
        ct == customer_table_of(pf, cf)
        pt == product_table_of(pf, cf)
        metrics == [NoOutput EXCEPT
                      !.df_prev_filtered = pf, !.df_curr_filtered = cf,
                      !.total_prev = total_of(pf), !.total_curr = total_of(cf),
                      !.growth = scalar_growth(total_of(pf), total_of(cf)),
                      !.num_orders_prev = num_orders(pf), !.num_orders_curr = num_orders(cf),
                      !.shown = <<"metrics">>]
    IN  IF pf = <<>> /\ cf = <<>>
        THEN [NoOutput EXCEPT !.status = "no_data", !.shown = <<"warning">>]
        ELSE IF render_raises(ct)
        THEN [metrics EXCEPT !.status = "error", !.customer_table = ct]
        ELSE IF render_raises(pt)
        THEN [metrics EXCEPT !.status = "error", !.customer_table = ct, !.product_table = pt,
                             !.shown = <<"metrics", "customer_table">>]
        ELSE [metrics EXCEPT !.status = "ok", !.customer_table = ct, !.product_table = pt,
                             !.trend_prev = trend(pf), !.trend_curr = trend(cf),
                             !.shown = <<"metrics", "customer_table", "product_table", "chart">>]

\* lines 170-243
plot_product_analysis(prev, curr, f) ==
    LET pf == filter_rows(prev, f)
        cf == filter_rows(curr, f)
        pt == product_table_of(pf, cf)
        pf2 == by_materials(pf, f)
        cf2 == by_materials(cf, f)
        base == [NoOutput EXCEPT !.df_prev_filtered = pf, !.df_curr_filtered = cf,
                                 !.product_table = pt]
    IN  IF pf = <<>> /\ cf = <<>>
        THEN [NoOutput EXCEPT !.status = "no_data", !.shown = <<"warning">>]
        ELSE IF render_raises(pt)
        THEN [base EXCEPT !.status = "error"]
        ELSE IF f.materials # <<>>
        THEN [base EXCEPT !.status = "ok",
                          !.df_prev_filtered = pf2, !.df_curr_filtered = cf2,
                          !.trend_prev = trend_by(pf2, LAMBDA r : r.Material),
                          !.trend_curr = trend_by(cf2, LAMBDA r : r.Material),
                          !.shown = IF pf2 # <<>> \/ cf2 # <<>>
                                    THEN <<"product_table", "chart">>
                                    ELSE <<"product_table">>]
        ELSE [base EXCEPT !.status = "ok", !.shown = <<"product_table">>]

\* lines 406-439: one customer table per selected sales rep, until one raises
RECURSIVE rep_tables_of(_, _, _)
rep_tables_of(tdvs, pf, cf) ==
    IF tdvs = <<>> THEN <<>>
    ELSE LET t == customer_table_of(SelectSeq(pf, LAMBDA r : r.tdv = Head(tdvs)),
                                    SelectSeq(cf, LAMBDA r : r.tdv = Head(tdvs)))
         IN  IF render_raises(t)
             THEN <<[tdv |-> Head(tdvs), table |-> t, shown |-> FALSE]>>
             ELSE <<[tdv |-> Head(tdvs), table |-> t, shown |-> TRUE]>>
                  \o rep_tables_of(Tail(tdvs), pf, cf)

\* lines 358-442
plot_tdv_analysis(prev, curr, f) ==
    LET pf == filter_rows_tdv(prev, f)
        cf == filter_rows_tdv(curr, f)
        reps == rep_tables_of(f.tdvs, pf, cf)
    IN  IF pf = <<>> /\ cf = <<>>
        THEN [NoOutput EXCEPT !.status = "no_data", !.shown = <<"warning">>]
        ELSE [NoOutput EXCEPT
                !.status = IF \E i \in 1..Len(reps) : ~reps[i].shown THEN "error" ELSE "ok",
                !.df_prev_filtered = pf, !.df_curr_filtered = cf,
                !.total_prev = total_of(pf), !.total_curr = total_of(cf),
                !.tdv_prev = tdv_grouped(pf), !.tdv_curr = tdv_grouped(cf),
                !.trend_prev = trend_by_tdv(pf), !.trend_curr = trend_by_tdv(cf),
                !.rep_tables = reps,
                !.shown = <<"pies", "chart">>]

-----------------------------------------------------------------------------
(* Dates and RFM (calculate_rfm, lines 7-29; Customer tab, lines 297-331). *)

IsLeap(y) == (y % 4 = 0 /\ y % 100 # 0) \/ y % 400 = 0

DaysBeforeMonth(y, m) ==
    LET len == <<31, IF IsLeap(y) THEN 29 ELSE 28, 31, 30, 31, 30, 31, 31, 30, 31, 30, 31>>
    IN  SeqSum(SubSeq(len, 1, m - 1))

\* the proleptic Gregorian ordinal of a date (date.toordinal())
Ordinal(dt) ==
    LET y == dt.y - 1
    IN  365 * y + (y \div 4) - (y \div 100) + (y \div 400) + DaysBeforeMonth(dt.y, dt.m) + dt.d

\* df['Billing Date'].max()
max_date(rows) ==
    CHOOSE dt \in {r.date : r \in Range(rows)} :
        \A r \in Range(rows) : Ordinal(r.date) <= Ordinal(dt)

LaterDate(a, b) == IF Ordinal(a) >= Ordinal(b) THEN a ELSE b

\* line 299: today is the date of pd.Timestamp.now()
latest_date_of(prev, curr, today) ==
    IF curr # <<>> /\ prev # <<>> THEN LaterDate(max_date(curr), max_date(prev)) ELSE today

\* the label values of the model in sorted order (the second key of the RFM groupby)
LabelSorted == <<"N1", "N2">>

RECURSIVE SortInts(_)
SortInts(s) ==
    IF s = <<>> THEN <<>>
    ELSE LET i == CHOOSE i \in 1..Len(s) : \A j \in 1..Len(s) : s[i] <= s[j]
         IN  <<s[i]>> \o SortInts(SubSeq(s, 1, i - 1) \o SubSeq(s, i + 1, Len(s)))

\* 4 times Series.quantile(k/4) (linear interpolation) of a non-empty column
quantile4(vals, k) ==
    LET s == SortInts(vals)
        p == k * (Len(s) - 1)
        lo == (p \div 4) + 1
        fr == p % 4
    IN  IF fr = 0 THEN 4 * s[lo] ELSE 4 * s[lo] + fr * (s[lo + 1] - s[lo])

\* the quartiles labelled from the last label to the first
qcut_reversed(vals, labels) ==
    LET edges == [k \in 1..5 |-> quantile4(vals, k - 1)]
        Bin(x) == CHOOSE i \in 1..4 : 4 * x <= edges[i + 1] /\ (i = 1 \/ 4 * x > edges[i])
    IN  IF Cardinality(Range(edges)) < 5 THEN [raised |-> TRUE, scores |-> <<>>]
        ELSE [raised |-> FALSE, scores |-> [i \in 1..Len(vals) |-> labels[5 - Bin(vals[i])]]]

\* pd.qcut(col, q=4, labels=labels, duplicates='drop'): the label of each value,
\* or a ValueError when dropping duplicate edges leaves fewer than four bins for
\* the four labels
qcut(vals, labels) ==
    LET edges == [k \in 1..5 |-> quantile4(vals, k - 1)]
        Bin(x) == CHOOSE i \in 1..4 : 4 * x <= edges[i + 1] /\ (i = 1 \/ 4 * x > edges[i])
    IN  IF Cardinality(Range(edges)) < 5 THEN [raised |-> TRUE, scores |-> <<>>]
        ELSE [raised |-> FALSE, scores |-> [i \in 1..Len(vals) |-> labels[Bin(vals[i])]]]

\* lines 19-23 for one metric
score_column(vals, labels) ==
    IF Cardinality(Range(vals)) <= 1
    THEN [raised |-> FALSE, scores |-> [i \in 1..Len(vals) |-> 1]]
    ELSE qcut(vals, labels)

\* line 14: the groups of groupby(['Customer', 'Name']) in key order; a row
\* whose Name is NaN belongs to no group
rfm_groups(rows) ==
    LET custs == SortedTexts({r.Customer : r \in Range(rows)})
    IN  Flatten([i \in 1..Len(custs) |->
                    MapSeq(SelectSeq(LabelSorted,
                                     LAMBDA n : \E r \in Range(rows) :
                                                    r.Customer = custs[i] /\ r.Name = n),
                           LAMBDA n : [Customer |-> custs[i], Name |-> n])])

\* calculate_rfm(df, latest_date): None, or the frame returned
calculate_rfm(rows, latest_date) ==
    LET gs == rfm_groups(rows)
        Of(g) == SelectSeq(rows, LAMBDA r : r.Customer = g.Customer /\ r.Name = g.Name)
        rec == MapSeq(gs, LAMBDA g : Ordinal(latest_date) - Ordinal(max_date(Of(g))))
        frq == MapSeq(gs, LAMBDA g : Len(Of(g)))
        mon == MapSeq(gs, LAMBDA g : total_of(Of(g)))
        rs == score_column(rec, <<4, 3, 2, 1>>)
        fs == score_column(frq, <<1, 2, 3, 4>>)
        ms == score_column(mon, <<1, 2, 3, 4>>)
    IN  IF rows = <<>> THEN None
        ELSE IF rs.raised \/ fs.raised \/ ms.raised THEN None
        ELSE Frame([i \in 1..Len(gs) |->
                [Customer |-> gs[i].Customer, Name |-> gs[i].Name,
                 Recency |-> rec[i], Frequency |-> frq[i], Monetary |-> mon[i],
                 Recency_Score |-> rs.scores[i], Frequency_Score |-> fs.scores[i],
                 Monetary_Score |-> ms.scores[i],
                 RFM_Segment |-> Digits(rs.scores[i]) \o Digits(fs.scores[i])
                                 \o Digits(ms.scores[i])]])

\* lines 302-305: one record per customer
rfm_by_customer(rfm) ==
    LET custs == SortedTexts({x.Customer : x \in Range(rfm)})
    IN  [i \in 1..Len(custs) |->
            LET g == SelectSeq(rfm, LAMBDA x : x.Customer = custs[i])
            IN  [Customer |-> custs[i], Name |-> g[1].Name,
                 Recency |-> SortInts(Column(g, LAMBDA x : x.Recency))[1],
                 Frequency |-> SeqSum(Column(g, LAMBDA x : x.Frequency)),
                 Monetary |-> SeqSum(Column(g, LAMBDA x : x.Monetary)),
                 RFM_Segment |-> g[1].RFM_Segment]]

\* lines 306-311: the RFM table, its last row the totals
rfm_table_of(rfm) ==
    LET by == rfm_by_customer(rfm)
    IN  [rows |-> by,
         total |-> [Frequency |-> SeqSum(Column(by, LAMBDA x : x.Frequency)),
                    Monetary |-> SeqSum(Column(by, LAMBDA x : x.Monetary))]]

\* what the Customer tab keeps of its RFM section: result is rfm_curr as line
\* 300 assigned it (None, or the frame calculate_rfm returned), rows and total
\* are the table of lines 302-311
NoRfm == [state |-> "skipped", latest_date |-> [y |-> 1, m |-> 1, d |-> 1],
          result |-> Unset, rows |-> <<>>, total |-> [Frequency |-> 0, Monetary |-> 0]]

\* lines 297-333
rfm_section(prev, curr, cf, f, today) ==
    LET latest == latest_date_of(prev, curr, today)
        rfm == IF cf # <<>> THEN calculate_rfm(cf, latest) ELSE None
    IN  IF f.customers = <<>> THEN [NoRfm EXCEPT !.state = "warning"]
        ELSE IF rfm.st = "none"
        THEN [NoRfm EXCEPT !.state = "none", !.latest_date = latest, !.result = None]
        ELSE [state |-> "table", latest_date |-> latest, result |-> rfm,
              rows |-> rfm_table_of(rfm.rows).rows, total |-> rfm_table_of(rfm.rows).total]

\* lines 245-356
plot_customer_analysis(prev, curr, f, today) ==
    LET pf == filter_rows(prev, f)
        cf == filter_rows(curr, f)
        ct == customer_table_of(pf, cf)
        pf2 == by_customers(pf, f)
        cf2 == by_customers(cf, f)
        base == [status |-> "ok", customer_table |-> ct, rfm |-> NoRfm,
                 df_prev_filtered |-> pf, df_curr_filtered |-> cf,
                 trend_prev |-> <<>>, trend_curr |-> <<>>, shown |-> <<>>]
    IN  IF pf = <<>> /\ cf = <<>>
        THEN [base EXCEPT !.status = "no_data", !.customer_table = <<>>,
                          !.df_prev_filtered = <<>>, !.df_curr_filtered = <<>>,
                          !.shown = <<"warning">>]
        ELSE IF render_raises(ct)
        THEN [base EXCEPT !.status = "error"]
        ELSE IF f.customers # <<>>
        THEN [base EXCEPT
                !.rfm = rfm_section(prev, curr, cf, f, today),
                !.df_prev_filtered = pf2, !.df_curr_filtered = cf2,
                !.trend_prev = trend_by(pf2, LAMBDA r : r.Customer),
                !.trend_curr = trend_by(cf2, LAMBDA r : r.Customer),
                !.shown = <<"customer_table">>
                          \o (IF rfm_section(prev, curr, cf, f, today).state = "table"
                              THEN <<"rfm_table">> ELSE <<>>)
                          \o (IF pf2 # <<>> \/ cf2 # <<>> THEN <<"chart">> ELSE <<>>)]
        ELSE [base EXCEPT !.rfm = rfm_section(prev, curr, cf, f, today),
                          !.shown = <<"customer_table", "rfm_warning">>]

\* the six values with the months counted by their number in the year
summary_column_month_numbers(rows) ==
    <<Len(rows),
      Cardinality({r.date.m : r \in Range(rows)}),
      Cardinality({r.Customer : r \in Range(rows)}),
      total_of(rows),
      Cardinality({r.Material : r \in Range(rows)}),
      Cardinality({r.tdv : r \in Range(rows)} \ {"NaN"})>>

\* get_summary_info(df_prev, df_curr), lines 31-55: None, or the six values of
\* each period
summary_column(rows) ==
    <<Len(rows),
      Cardinality({<<r.date.y, r.date.m>> : r \in Range(rows)}),
      Cardinality({r.Customer : r \in Range(rows)}),
      total_of(rows),
      Cardinality({r.Material : r \in Range(rows)}),
      Cardinality({r.tdv : r \in Range(rows)} \ {"NaN"})>>

get_summary_info(prev, curr) ==
    IF prev.st # "frame" \/ curr.st # "frame" \/ prev.rows = <<>> \/ curr.rows = <<>>
    THEN [st |-> "none", prev |-> <<>>, curr |-> <<>>]
    ELSE [st |-> "frame", prev |-> summary_column(prev.rows), curr |-> summary_column(curr.rows)]


-----------------------------------------------------------------------------
(* The script main.py, one run.                                            *)

NoFilters == [months |-> <<>>, customers |-> <<>>, materials |-> <<>>, tdvs |-> <<>>,
              set |-> FALSE]

NoSummary == [st |-> "unset", prev |-> <<>>, curr |-> <<>>]

NoCustomerOutput ==
    [status |-> "unset", customer_table |-> <<>>, rfm |-> NoRfm,
     df_prev_filtered |-> <<>>, df_curr_filtered |-> <<>>,
     trend_prev |-> <<>>, trend_curr |-> <<>>, shown |-> <<>>]

\* the state of the script before its first statement
ScriptStart ==
    /\ df_prev = Unset
    /\ df_curr = Unset
    /\ report_prev = NoReport
    /\ report_curr = NoReport
    /\ filters = NoFilters
    /\ summary = NoSummary
    /\ overview = NoOutput
    /\ product_tab = NoOutput
    /\ customer_tab = NoCustomerOutput
    /\ tdv_tab = NoOutput
    /\ pc = "load"

\* the loads without the check of line 91
LoadData_no_stop ==
    /\ pc = "load"
    /\ IF prev_year_file.uploaded /\ curr_year_file.uploaded
       THEN LET p == load_and_validate_data(prev_year_file)
                c == load_and_validate_data(curr_year_file)
            IN  /\ df_prev' = p.df
                /\ df_curr' = c.df
                /\ report_prev' = p.report
                /\ report_curr' = c.report
                /\ pc' = "filters"
       ELSE /\ pc' = "stopped"
            /\ UNCHANGED <<df_prev, df_curr, report_prev, report_curr>>
    /\ UNCHANGED <<prev_year_file, curr_year_file, selection, filters, summary, overview,
                   product_tab, customer_tab, tdv_tab, now>>

\* main.py:83-93 and 174-176: both files are needed, then both loads
LoadData ==
    /\ pc = "load"
    /\ IF prev_year_file.uploaded /\ curr_year_file.uploaded
       THEN LET p == load_and_validate_data(prev_year_file)
                c == load_and_validate_data(curr_year_file)
            IN  /\ df_prev' = p.df
                /\ df_curr' = c.df
                /\ report_prev' = p.report
                /\ report_curr' = c.report
                /\ pc' = IF p.df.st = "none" \/ c.df.st = "none" THEN "stopped" ELSE "filters"
       ELSE /\ pc' = "stopped"
            /\ UNCHANGED <<df_prev, df_curr, report_prev, report_curr>>
    /\ UNCHANGED <<prev_year_file, curr_year_file, selection, filters, summary, overview,
                   product_tab, customer_tab, tdv_tab, now>>

\* main.py:95-146
BuildFilters ==
    /\ pc = "filters"
    /\ filters' = build_filters(df_prev.rows, df_curr.rows, selection)
    /\ pc' = "summary"
    /\ UNCHANGED <<prev_year_file, curr_year_file, selection, df_prev, df_curr, report_prev,
                   report_curr, summary, overview, product_tab, customer_tab, tdv_tab, now>>

\* main.py:148-172
SummaryInfo ==
    /\ pc = "summary"
    /\ summary' = get_summary_info(df_prev, df_curr)
    /\ pc' = "overview"
    /\ UNCHANGED <<prev_year_file, curr_year_file, selection, df_prev, df_curr, report_prev,
                   report_curr, filters, overview, product_tab, customer_tab, tdv_tab, now>>

\* the Overview tab ending the run when it raised
TabOverview_stops_on_error ==
    /\ pc = "overview"
    /\ overview' = plot_overview(df_prev.rows, df_curr.rows, filters)
    /\ pc' = IF overview'.status = "error" THEN "stopped" ELSE "product"
    /\ UNCHANGED <<prev_year_file, curr_year_file, selection, df_prev, df_curr, report_prev,
                   report_curr, filters, summary, product_tab, customer_tab, tdv_tab, now>>

\* main.py:183-184
TabOverview ==
    /\ pc = "overview"
    /\ overview' = plot_overview(df_prev.rows, df_curr.rows, filters)
    /\ pc' = "product"
    /\ UNCHANGED <<prev_year_file, curr_year_file, selection, df_prev, df_curr, report_prev,
                   report_curr, filters, summary, product_tab, customer_tab, tdv_tab, now>>

\* main.py:185-186
TabProduct ==
    /\ pc = "product"
    /\ product_tab' = plot_product_analysis(df_prev.rows, df_curr.rows, filters)
    /\ pc' = "customer"
    /\ UNCHANGED <<prev_year_file, curr_year_file, selection, df_prev, df_curr, report_prev,
                   report_curr, filters, summary, overview, customer_tab, tdv_tab, now>>

\* main.py:187-188
TabCustomer ==
    /\ pc = "customer"
    /\ customer_tab' = plot_customer_analysis(df_prev.rows, df_curr.rows, filters, now)
    /\ pc' = "tdv"
    /\ UNCHANGED <<prev_year_file, curr_year_file, selection, df_prev, df_curr, report_prev,
                   report_curr, filters, summary, overview, product_tab, tdv_tab, now>>

\* main.py:189-190
TabTDV ==
    /\ pc = "tdv"
    /\ tdv_tab' = plot_tdv_analysis(df_prev.rows, df_curr.rows, filters)
    /\ pc' = "done"
    /\ UNCHANGED <<prev_year_file, curr_year_file, selection, df_prev, df_curr, report_prev,
                   report_curr, filters, summary, overview, product_tab, customer_tab, now>>

Next ==
    \/ LoadData
    \/ BuildFilters
    \/ SummaryInfo
    \/ TabOverview
    \/ TabProduct
    \/ TabCustomer
    \/ TabTDV


-----------------------------------------------------------------------------
(* Inputs: uploaded sheets, selections, clock.                             *)

AllColumns == Range(required_columns)

File(rows) == [uploaded |-> TRUE, readable |-> TRUE, columns |-> AllColumns, rows |-> rows]
Unreadable == [uploaded |-> TRUE, readable |-> FALSE, columns |-> {}, rows |-> <<>>]
Without(file, cols) == [file EXCEPT !.columns = AllColumns \ cols]

DateCell(y, m, d) == [k |-> "dmy", y |-> y, m |-> m, d |-> d]
JunkDate == [k |-> "junk", y |-> 0, m |-> 0, d |-> 0]
EmptyDate == [k |-> "empty", y |-> 0, m |-> 0, d |-> 0]

IdInt(n) == [k |-> "int", n |-> n, s |-> <<>>]
IdFloat(n) == [k |-> "float", n |-> n, s |-> <<>>]
IdStr(s) == [k |-> "str", n |-> 0, s |-> s]
IdNaN == [k |-> "nan", n |-> 0, s |-> <<>>]

Num(v) == [k |-> "num", v |-> v]
NumStr(v) == [k |-> "numstr", v |-> v]
TextCell == [k |-> "text", v |-> 0]
EmptyCell == [k |-> "nan", v |-> 0]

RawRow(date, cust, name, mat, desc, qty, price, ds, tdv) ==
    [date |-> date, Customer |-> cust, Name |-> name, Material |-> mat,
     ItemDescription |-> desc, qty |-> qty, price |-> price, ds |-> ds, tdv |-> tdv]

Sel(ms, cs, mats, ts) == [months |-> ms, customers |-> cs, materials |-> mats, tdvs |-> ts]

\* what the widgets hold on a first run: every month, no customer, no product,
\* every sales rep (main.py:97, 109, 126, 138)
DefaultSel == Sel(months, {}, {}, Range(TdvSorted))

Today == [y |-> 2024, m |-> 3, d |-> 1]

\* a run of the script on the given inputs
RunOn(prev_file, curr_file, sel, today) ==
    /\ prev_year_file = prev_file
    /\ curr_year_file = curr_file
    /\ selection = sel
    /\ now = today
    /\ ScriptStart

(* Spec: the script on a small family of uploads, failing ones included.   *)

RowA == RawRow(DateCell(2024, 1, 15), IdFloat(7), "N1", IdInt(1), "D1",
               Num(2000), Num(500), Num(1000), "T1")
RowB == RawRow(DateCell(2023, 2, 20), IdInt(8), "NaN", IdStr(<<"1", "0">>), "D2",
               Num(1000), NumStr(1000), Num(-1004), "T2")
RowBadDate == [RowA EXCEPT !.date = JunkDate]
RowBadNumber == [RowB EXCEPT !.qty = TextCell]

SmallFiles ==
    {NoFile, Unreadable, Without(File(<<RowA>>), {"Ten TDV"}),
     File(<<>>), File(<<RowA>>), File(<<RowB>>), File(<<RowA, RowB>>),
     File(<<RowBadDate, RowB>>), File(<<RowBadNumber>>)}

SmallSels ==
    {Sel(ms, cs, mats, ts) :
        ms \in {{}, {1}, months}, cs \in {{}, {<<"7">>}},
        mats \in {{}, {<<"1", "0">>}}, ts \in {{}, {"T1"}, {"T1", "T2"}}}

Init ==
    \E p \in SmallFiles, c \in SmallFiles, sel \in SmallSels :
        RunOn(p, c, sel, Today)

Spec == Init /\ [][Next]_vars


(* SpecLoad: the script on every sheet of up to MaxRawRows rows whose      *)
(* cells are valid or invalid in each way the loader distinguishes, with   *)
(* all columns or with some missing.                                       *)

LoadRows ==
    {RawRow(date, IdFloat(7), "N1", IdInt(1), "D1", qty, price, ds, "T1") :
        date \in {DateCell(2024, 1, 15), JunkDate, EmptyDate},
        qty \in {NumStr(1000), TextCell},
        price \in {Num(500), EmptyCell},
        ds \in {Num(1004), TextCell}}

LoadFiles ==
    {[File(rows) EXCEPT !.columns = AllColumns \ gone] :
        rows \in SeqsUpTo(LoadRows, MaxRawRows),
        gone \in {{}, {"Ten TDV"}, {"Billing Date", "Don Gia"}}}

InitLoad ==
    \E p \in LoadFiles : RunOn(p, File(<<RowB>>), DefaultSel, Today)

SpecLoad == InitLoad /\ [][Next]_vars


(* SpecAgg: the script on every pair of valid sheets of up to MaxAggRows    *)
(* rows together. Customer 7 (sales rep T1) buys products 1 and 10,        *)
(* customer 8 (sales rep T2) buys product 10, each line with a negative, a *)
(* zero or a positive amount; the widgets are left as they are on a first  *)
(* run.                                                                    *)

AggCustomer7 == [id |-> IdInt(7), name |-> "N1", tdv |-> "T1"]
AggCustomer8 == [id |-> IdFloat(8), name |-> "N2", tdv |-> "T2"]
AggMaterial1 == [id |-> IdInt(1), desc |-> "D1"]
AggMaterial10 == [id |-> IdStr(<<"1", "0">>), desc |-> "D2"]

AggPurchases ==
    {<<AggCustomer7, AggMaterial1>>, <<AggCustomer7, AggMaterial10>>,
     <<AggCustomer8, AggMaterial10>>}

AggRows ==
    {RawRow(DateCell(2024, 1, 15), x[1].id, x[1].name, x[2].id, x[2].desc,
            Num(1000), Num(500), ds, x[1].tdv) :
        x \in AggPurchases, ds \in {Num(-1000), Num(0), Num(1000)}}

InitAgg ==
    \E a \in 0..MaxAggRows :
        \E p \in [1..a -> AggRows] :
            \E b \in 0..(MaxAggRows - a) :
                \E c \in [1..b -> AggRows] :
                    RunOn(File(p), File(c), DefaultSel, Today)

SpecAgg == InitAgg /\ [][Next]_vars


(* SpecFilter: the script on every pair of valid sheets of up to           *)
(* MaxFilterRows rows together, the rows differing from one another in     *)
(* one filtered column at a time (a row without sales rep included), under *)
(* every combination of an empty and a non-empty choice in the widgets.    *)

FilterRow(m, cust, mat, tdv) ==
    RawRow(DateCell(2024, m, 15), cust, "N1", mat, "D1", Num(1000), Num(500), Num(1000), tdv)

FilterRows ==
    {FilterRow(1, IdInt(7), IdInt(1), "T1"),
     FilterRow(2, IdInt(7), IdInt(1), "T1"),
     FilterRow(1, IdFloat(8), IdInt(1), "T1"),
     FilterRow(1, IdInt(7), IdFloat(10), "T1"),
     FilterRow(1, IdInt(7), IdInt(1), "T2"),
     FilterRow(1, IdInt(7), IdInt(1), "NaN")}

FilterSels ==
    {Sel(ms, cs, mats, ts) :
        ms \in {{}, {2}, months}, cs \in {{}, {<<"7">>}},
        mats \in {{}, {<<"1", "0">>}}, ts \in {{}, {"T1"}, {"T1", "T2"}}}

InitFilter ==
    \E a \in 0..MaxFilterRows, sel \in FilterSels :
        \E p \in [1..a -> FilterRows] :
            \E b \in 0..(MaxFilterRows - a) :
                \E c \in [1..b -> FilterRows] :
                    RunOn(File(p), File(c), sel, Today)

SpecFilter == InitFilter /\ [][Next]_vars


(* SpecNorm: the script on two one-row sheets, the customer cell of the    *)
(* first and the product cell of the second being any text of up to        *)
(* MaxIdLen characters over a digit, a zero, a dot and a newline, or an    *)
(* integer, a float or an empty cell.                                      *)

NormChars == {"1", "0", ".", "\n"}

NormCells ==
    {IdStr(s) : s \in SeqsUpTo(NormChars, MaxIdLen)}
        \cup {IdInt(7), IdFloat(7), IdInt(10), IdFloat(10), IdNaN}

InitNorm ==
    \E cell \in NormCells :
        RunOn(File(<<[RowA EXCEPT !.Customer = cell]>>),
              File(<<[RowA EXCEPT !.Material = cell]>>), DefaultSel, Today)

SpecNorm == InitNorm /\ [][Next]_vars


(* SpecRfm: the script with customers 7, 8, 9 ticked, on a fixed previous  *)
(* sheet and every current sheet of up to MaxRfmRows rows: customer 7      *)
(* under two names or without name, customer 8, each line one of three     *)
(* sales of different day and amount.                                      *)

RfmRow(who, sale) ==
    RawRow(sale[1], who[1], who[2], IdInt(1), "D1", Num(1000), Num(500), sale[2], "T1")

RfmPeople ==
    {<<IdInt(7), "N1">>, <<IdInt(7), "N2">>, <<IdInt(7), "NaN">>, <<IdFloat(8), "N1">>}

RfmSales ==
    {<<DateCell(2024, 1, 15), Num(2000)>>, <<DateCell(2024, 2, 20), Num(1000)>>,
     <<DateCell(2024, 2, 25), Num(3000)>>}

RfmRows == {RfmRow(who, sale) : who \in RfmPeople, sale \in RfmSales}

RfmPrev == File(<<RfmRow(<<IdInt(7), "N1">>, <<DateCell(2024, 3, 10), Num(1000)>>)>>)

RfmSel == Sel(months, {<<"7">>, <<"8">>, <<"9">>}, {}, Range(TdvSorted))

InitRfm ==
    \E n \in 0..MaxRfmRows :
        \E c \in [1..n -> RfmRows] :
            RunOn(RfmPrev, File(c), RfmSel, Today)

SpecRfm == InitRfm /\ [][Next]_vars


(* SpecClock: the script with customers 7, 8 and 9 ticked, run at one of   *)
(* two dates, on a previous sheet that is empty, has one line dated after  *)
(* every current line, or has one line of amount 0 of a customer that is   *)
(* not in the current sheet, and every current sheet of up to MaxRfmRows   *)
(* rows over two of the sales above.                                       *)

Clocks == {Today, [y |-> 2024, m |-> 4, d |-> 1]}

ClockRows ==
    {RfmRow(who, sale) :
        who \in RfmPeople,
        sale \in {<<DateCell(2024, 1, 15), Num(2000)>>, <<DateCell(2024, 2, 20), Num(1000)>>}}

ClockPrev ==
    {File(<<>>), RfmPrev,
     File(<<RfmRow(<<IdInt(9), "N1">>, <<DateCell(2023, 12, 5), Num(0)>>)>>)}

InitClock ==
    \E n \in 0..MaxRfmRows, p \in ClockPrev, today \in Clocks :
        \E c \in [1..n -> ClockRows] :
            RunOn(p, File(c), RfmSel, today)

SpecClock == InitClock /\ [][Next]_vars


(* SpecSummary: the script on every pair of sheets of up to MaxRawRows     *)
(* rows each, over four valid lines (two of January in different years,    *)
(* one without sales rep) and a line that the loader drops, with month 1   *)
(* and customer 7 chosen in the widgets.                                   *)

SummaryRows ==
    {RawRow(DateCell(2023, 1, 15), IdInt(7), "N1", IdInt(1), "D1",
            Num(1000), Num(500), Num(1000), "T1"),
     RawRow(DateCell(2024, 1, 15), IdInt(7), "N1", IdInt(1), "D1",
            Num(1000), Num(500), Num(2000), "T1"),
     RawRow(DateCell(2024, 1, 20), IdFloat(8), "N2", IdFloat(10), "D2",
            Num(1000), Num(500), Num(-500), "T2"),
     RawRow(DateCell(2024, 2, 20), IdInt(7), "N1", IdInt(1), "D1",
            Num(1000), Num(500), Num(3000), "NaN"),
     RowBadNumber}

SummarySel == Sel({1}, {<<"7">>}, {}, Range(TdvSorted))

InitSummary ==
    \E a, b \in 0..MaxRawRows :
        \E p \in [1..a -> SummaryRows] :
            \E c \in [1..b -> SummaryRows] :
                RunOn(File(p), File(c), SummarySel, Today)

SpecSummary == InitSummary /\ [][Next]_vars

-----------------------------------------------------------------------------
(* Claims.                                                                 *)

Loaded == pc # "load" /\ prev_year_file.uploaded /\ curr_year_file.uploaded

\* the two loads of a run: the sheet, the value returned, what was reported
Loads ==
    {[file |-> prev_year_file, df |-> df_prev, report |-> report_prev],
     [file |-> curr_year_file, df |-> df_curr, report |-> report_curr]}

NothingAfterLoad ==
    /\ ~filters.set
    /\ summary.st = "unset"
    /\ overview.status = "unset"
    /\ product_tab.status = "unset"
    /\ customer_tab.status = "unset"
    /\ tdv_tab.status = "unset"

\* the tabs that went past their "no data" check
Computed(tab) == tab.status \in {"ok", "error"}

\* every customer or product comparison table the run has built
ComparisonTables ==
    ({overview.customer_table, overview.product_table, product_tab.product_table,
      customer_tab.customer_table}
        \cup {tdv_tab.rep_tables[i].table : i \in 1..Len(tdv_tab.rep_tables)}) \ {<<>>}

\* C1. Growth zero-policy: in every customer and product comparison table of the
\* run (Overview, Product and Customer tabs, per-sales-rep customer tables),
\* every non-total row whose previous amount is 0 has growth 0, whatever the
\* current amount is.
C1_GrowthZeroPolicy ==
    \A t \in ComparisonTables :
        \A i \in 1..(Len(t) - 1) :
            t[i].amount_prev = 0 => IsZero(t[i].growth)

\* the Overview tab built a customer table with a row 0 -> 0 whose growth is
\* the empty string, and ended in its except clause
C1_Witness ==
    /\ overview.status = "error"
    /\ \E i \in 1..(Len(overview.customer_table) - 1) :
          /\ overview.customer_table[i].amount_prev = 0
          /\ overview.customer_table[i].amount_curr = 0
          /\ overview.customer_table[i].growth = Blank

CustomerIds(prev, curr) == {r.Customer : r \in Range(prev) \cup Range(curr)}
MaterialIds(prev, curr) == {r.Material : r \in Range(prev) \cup Range(curr)}

\* each of ids is on exactly one non-total row of the table, and no other id is
Complete(table, ids) ==
    /\ \A id \in ids : Cardinality({i \in 1..(Len(table) - 1) : table[i].id = id}) = 1
    /\ \A i \in 1..(Len(table) - 1) : table[i].id \in ids

OfRep(rows, tdv) == SelectSeq(rows, LAMBDA r : r.tdv = tdv)

\* C2. Outer-join completeness: in the customer table of the Overview and
\* Customer tabs, the product table of the Product tab and of the Overview tab
\* (built once the customer table is on the page) and the customer table of a
\* sales rep, every id of the filtered previous or current rows is on exactly
\* one non-total row, and no non-total row carries another id.
C2_OuterJoinCompleteness ==
    /\ Computed(overview) =>
          Complete(overview.customer_table,
                   CustomerIds(overview.df_prev_filtered, overview.df_curr_filtered))
    /\ overview.status = "ok" \/ overview.product_table # <<>> =>
          Complete(overview.product_table,
                   MaterialIds(overview.df_prev_filtered, overview.df_curr_filtered))
    /\ Computed(product_tab) =>
          Complete(product_tab.product_table,
                   MaterialIds(product_tab.df_prev_filtered, product_tab.df_curr_filtered))
    /\ Computed(customer_tab) =>
          Complete(customer_tab.customer_table,
                   CustomerIds(customer_tab.df_prev_filtered, customer_tab.df_curr_filtered))
    /\ \A i \in 1..Len(tdv_tab.rep_tables) :
          Complete(tdv_tab.rep_tables[i].table,
                   CustomerIds(OfRep(tdv_tab.df_prev_filtered, tdv_tab.rep_tables[i].tdv),
                               OfRep(tdv_tab.df_curr_filtered, tdv_tab.rep_tables[i].tdv)))

\* a finished run whose Overview tables each have a row for an id of the previous
\* rows only and a row for an id of the current rows only
C2_Witness ==
    /\ pc = "done"
    /\ overview.status = "ok"
    /\ \E c \in CustomerIds(overview.df_prev_filtered, <<>>) :
          c \notin CustomerIds(<<>>, overview.df_curr_filtered)
    /\ \E c \in CustomerIds(<<>>, overview.df_curr_filtered) :
          c \notin CustomerIds(overview.df_prev_filtered, <<>>)
    /\ \E m \in MaterialIds(overview.df_prev_filtered, <<>>) :
          m \notin MaterialIds(<<>>, overview.df_curr_filtered)
    /\ \E m \in MaterialIds(<<>>, overview.df_curr_filtered) :
          m \notin MaterialIds(overview.df_prev_filtered, <<>>)

\* the last row of the table is a totals row: blank id and labels, each amount
\* the sum of that amount over the rows before it
TotalsRowSums(table) ==
    /\ table # <<>>
    /\ TotalRow(table).id = <<>>
    /\ TotalRow(table).label_prev = "" /\ TotalRow(table).label_curr = ""
    /\ TotalRow(table).amount_prev
          = SeqSum(Column(NonTotalRows(table), LAMBDA x : x.amount_prev))
    /\ TotalRow(table).amount_curr
          = SeqSum(Column(NonTotalRows(table), LAMBDA x : x.amount_curr))

RepTotalsRowSums(frame) ==
    /\ frame # <<>>
    /\ frame[Len(frame)].tdv = ""
    /\ frame[Len(frame)].ds
          = SeqSum(Column(SubSeq(frame, 1, Len(frame) - 1), LAMBDA x : x.ds))

Keeps(r, f) ==
    /\ r.date.m \in Range(f.months)
    /\ f.customers = <<>> \/ r.Customer \in Range(f.customers)
    /\ f.materials = <<>> \/ r.Material \in Range(f.materials)
    /\ f.tdvs = <<>> \/ r.tdv \in Range(f.tdvs)

\* the filtered datasets of the four tabs
TabsRun ==
    {[prev |-> x.df_prev_filtered, curr |-> x.df_curr_filtered] :
        x \in {y \in {overview, product_tab, tdv_tab} : y.status # "unset"}}
        \cup (IF customer_tab.status # "unset"
               THEN {[prev |-> customer_tab.df_prev_filtered,
                      curr |-> customer_tab.df_curr_filtered]}
               ELSE {})

\* C4. Filter predicate: in each of the four tabs, the filtered previous rows
\* are exactly the rows of df_prev, in their order, whose month is in
\* filters['months'] and whose customer, product and sales rep are each in the
\* matching list of filters when that list is not empty; the filtered current
\* rows are the rows of df_curr kept by the same predicate.
C4_FilterPredicate ==
    \A t \in TabsRun :
        /\ t.prev = SelectSeq(df_prev.rows, LAMBDA r : Keeps(r, filters))
        /\ t.curr = SelectSeq(df_curr.rows, LAMBDA r : Keeps(r, filters))

\* a finished run with a customer and a sales-rep restriction that kept one of
\* two previous rows
C4_Witness ==
    /\ pc = "done"
    /\ filters.customers # <<>>
    /\ filters.tdvs # <<>>
    /\ Len(df_prev.rows) = 2
    /\ Len(tdv_tab.df_prev_filtered) = 1
    /\ Len(overview.df_prev_filtered) = 1

\* C5. Filter default: when nothing is ticked in any of the four widgets (no
\* month, no customer, no product, no sales rep), each tab works on exactly the
\* rows of df_prev and of df_curr.
C5_FilterDefault ==
    selection = Sel({}, {}, {}, {}) =>
        \A t \in TabsRun : t.prev = df_prev.rows /\ t.curr = df_curr.rows

\* a finished run with nothing ticked on two previous rows of different months
\* or sales reps, one row possibly without a sales rep
C5_Witness ==
    /\ pc = "done"
    /\ selection = Sel({}, {}, {}, {})
    /\ Len(df_prev.rows) = 2
    /\ df_prev.rows[1].tdv # df_prev.rows[2].tdv
    /\ df_prev.rows[2].tdv = "NaN"
    /\ tdv_tab.df_prev_filtered = df_prev.rows

\* C7. Pipeline gating: nothing after the loads (filters, summary, any tab) has
\* run unless both loads returned a dataset; when a file is missing or a load
\* returned None, the run has stopped with none of those steps done.
C7_PipelineGating ==
    /\ ~NothingAfterLoad => df_prev.st = "frame" /\ df_curr.st = "frame"
    /\ pc # "load" /\ (~prev_year_file.uploaded \/ ~curr_year_file.uploaded
                        \/ df_prev.st = "none" \/ df_curr.st = "none")
          => pc = "stopped" /\ NothingAfterLoad

\* a run stopped because the second load failed after the first succeeded
C7_Witness ==
    pc = "stopped" /\ df_prev.st = "frame" /\ df_curr.st = "none"

\* C6. Schema check: a readable sheet that lacks a required column gives None,
\* the report names exactly the missing columns, and no later stage of the
\* loader ran; a readable sheet with all eleven columns is never rejected.
C6_SchemaCheck ==
    Loaded =>
        \A l \in Loads :
            l.file.readable =>
                IF \E col \in AllColumns : col \notin l.file.columns
                THEN /\ l.df = None
                     /\ l.report.error = "schema"
                     /\ Range(l.report.missing) = AllColumns \ l.file.columns
                     /\ Range(l.report.steps) \cap {"dates", "ids", "numeric", "dropna", "round"} = {}
                     /\ l.report.invalid_dates = <<>>
                     /\ l.report.invalid_numeric = <<>>
                ELSE l.df.st = "frame" /\ l.report.error = "none"

\* a sheet with rows and two columns missing was rejected
C6_Witness ==
    /\ Loaded
    /\ prev_year_file.rows # <<>>
    /\ Cardinality(AllColumns \ prev_year_file.columns) = 2
    /\ df_prev = None

\* C8. Row-drop conservation: for a sheet that passed the column check, rows
\* kept + rows reported with an invalid date + rows reported with an invalid
\* number = rows of the sheet, and no row is reported twice.
C8_RowDropConservation ==
    Loaded =>
        \A l \in Loads :
            l.df.st = "frame" =>
                /\ Len(l.df.rows) + Len(l.report.invalid_dates) + Len(l.report.invalid_numeric)
                      = Len(l.file.rows)
                /\ Range(l.report.invalid_dates) \cap Range(l.report.invalid_numeric) = {}

BadDateCell(row) == row.date.k # "dmy"
BadNumberCell(row) ==
    \E cell \in {row.qty, row.price, row.ds} : cell.k \notin {"num", "numstr"}

\* a loaded sheet with a row that fails both checks, and a row that is kept
C8_Witness ==
    /\ Loaded
    /\ df_prev.st = "frame"
    /\ df_prev.rows # <<>>
    /\ \E i \in 1..Len(prev_year_file.rows) :
          BadDateCell(prev_year_file.rows[i]) /\ BadNumberCell(prev_year_file.rows[i])

\* C9. Validated dataset: every row returned comes from a sheet row with a
\* parseable date and three numeric cells; a sheet row is absent from the result
\* only if its date or one of the three numbers is invalid; the rows returned
\* are in the order of the sheet.
C9_ValidatedDataset ==
    Loaded =>
        \A l \in Loads :
            l.df.st = "frame" =>
                /\ \A i \in 1..Len(l.df.rows) :
                      /\ l.df.rows[i].idx + 1 \in 1..Len(l.file.rows)
                      /\ ~BadDateCell(l.file.rows[l.df.rows[i].idx + 1])
                      /\ ~BadNumberCell(l.file.rows[l.df.rows[i].idx + 1])
                /\ \A j \in 1..Len(l.file.rows) :
                      (\A i \in 1..Len(l.df.rows) : l.df.rows[i].idx # j - 1)
                          => BadDateCell(l.file.rows[j]) \/ BadNumberCell(l.file.rows[j])
                /\ \A i \in 1..(Len(l.df.rows) - 1) : l.df.rows[i].idx < l.df.rows[i + 1].idx

\* a loaded sheet of which the first row was dropped and a later row kept
C9_Witness ==
    /\ Loaded
    /\ df_prev.st = "frame"
    /\ Len(prev_year_file.rows) >= 2
    /\ Len(df_prev.rows) = 1
    /\ df_prev.rows[1].idx = 1

\* C10. Normalization idempotence: normalising a customer or product id the
\* loader returned (string conversion, then the trailing-zero strip) gives the
\* same id again.
C10_NormalizationIdempotent ==
    \A df \in {df_prev, df_curr} :
        \A i \in 1..Len(df.rows) :
            /\ CleanId(IdStr(df.rows[i].Customer)) = df.rows[i].Customer
            /\ CleanId(IdStr(df.rows[i].Material)) = df.rows[i].Material

\* the loader returned the customer id "1.0" for the cell "1.0.0"
C10_Witness ==
    /\ Loaded
    /\ prev_year_file.rows[1].Customer = IdStr(<<"1", ".", "0", ".", "0">>)
    /\ df_prev.rows[1].Customer = <<"1", ".", "0">>
    /\ CleanId(IdStr(df_prev.rows[1].Customer)) = <<"1">>

\* C11. Headline growth: when the Overview tab has rows to show, its two totals
\* are the sums of the amounts of the filtered previous and current rows, and
\* the growth is (total_curr - total_prev) / total_prev * 100 when total_prev is
\* not 0 and 0 when it is 0, an empty previous side included.
C11_HeadlineGrowth ==
    Computed(overview) =>
        LET tp == SeqSum(Column(overview.df_prev_filtered, LAMBDA r : r.ds))
            tc == SeqSum(Column(overview.df_curr_filtered, LAMBDA r : r.ds))
        IN  /\ overview.total_prev = tp
            /\ overview.total_curr = tc
            /\ IF tp # 0 THEN SameNumber(overview.growth, Fin((tc - tp) * 100, tp))
               ELSE IsZero(overview.growth)

\* the Overview of previous rows +10.00 and -10.00 that sum to 0 against a
\* current total that is not 0
C11_Witness ==
    /\ Computed(overview)
    /\ Len(overview.df_prev_filtered) = 2
    /\ overview.df_prev_filtered[1].ds # 0
    /\ overview.total_prev = 0
    /\ overview.total_curr # 0
    /\ IsZero(overview.growth)

\* the rows of a table for an id of one side only: amount 0 and an empty label
\* in the columns of the other side, first label and sum of the side it is on
MissingSideBlank(table, prev, curr, Key(_), Label(_)) ==
    \A i \in 1..(Len(table) - 1) :
        LET P == SelectSeq(prev, LAMBDA r : Key(r) = table[i].id)
            C == SelectSeq(curr, LAMBDA r : Key(r) = table[i].id)
        IN  /\ P = <<>> =>
                  /\ table[i].amount_prev = 0 /\ table[i].label_prev = ""
                  /\ table[i].amount_curr = SeqSum(Column(C, LAMBDA r : r.ds))
                  /\ table[i].label_curr = Label(C[1])
            /\ C = <<>> =>
                  /\ table[i].amount_curr = 0 /\ table[i].label_curr = ""
                  /\ table[i].amount_prev = SeqSum(Column(P, LAMBDA r : r.ds))
                  /\ table[i].label_prev = Label(P[1])

\* C20. Missing side of the outer join: in every customer and product comparison
\* table, a row for an id of one filtered period only has amount 0 and an empty
\* label in the columns of the other period, and the first label and the summed
\* amount of the period it is in.
C20_MissingSideBlank ==
    /\ MissingSideBlank(overview.customer_table, overview.df_prev_filtered,
                        overview.df_curr_filtered, LAMBDA r : r.Customer, LAMBDA r : r.Name)
    /\ MissingSideBlank(overview.product_table, overview.df_prev_filtered,
                        overview.df_curr_filtered,
                        LAMBDA r : r.Material, LAMBDA r : r.ItemDescription)
    /\ MissingSideBlank(product_tab.product_table, product_tab.df_prev_filtered,
                        product_tab.df_curr_filtered,
                        LAMBDA r : r.Material, LAMBDA r : r.ItemDescription)
    /\ MissingSideBlank(customer_tab.customer_table, customer_tab.df_prev_filtered,
                        customer_tab.df_curr_filtered,
                        LAMBDA r : r.Customer, LAMBDA r : r.Name)

\* both periods have rows, customer 7 is in the current rows only, and its row
\* of the Customer tab's table carries 0 as previous name
C20_Witness ==
    /\ customer_tab.status = "ok"
    /\ customer_tab.df_prev_filtered # <<>>
    /\ \E i \in 1..(Len(customer_tab.customer_table) - 1) :
          /\ customer_tab.customer_table[i].id = <<"7">>
          /\ customer_tab.customer_table[i].label_prev = "0"
          /\ customer_tab.customer_table[i].amount_prev = 0
          /\ customer_tab.customer_table[i].label_curr = "N1"

\* the rows that are the first of their order: no earlier row has the same
\* customer on the same calendar day
FirstOfOrder(rows) ==
    {i \in 1..Len(rows) :
        \A j \in 1..(i - 1) :
            rows[j].Customer # rows[i].Customer \/ rows[j].date # rows[i].date}

\* C12. Order count: the order count the Overview tab shows for a period is the
\* number of distinct (customer, calendar day) pairs among the filtered rows of
\* that period, however many line items a pair has, and 0 for a period with no
\* filtered row.
C12_OrderCount ==
    Computed(overview) =>
        /\ overview.num_orders_prev = Cardinality(FirstOfOrder(overview.df_prev_filtered))
        /\ overview.num_orders_curr = Cardinality(FirstOfOrder(overview.df_curr_filtered))
        /\ overview.df_curr_filtered = <<>> => overview.num_orders_curr = 0

\* three current line items, two of them of one customer on one day, counted
\* as two orders
C12_Witness ==
    /\ Computed(overview)
    /\ Len(overview.df_curr_filtered) = 3
    /\ overview.df_curr_filtered[1].Customer = overview.df_curr_filtered[2].Customer
    /\ overview.df_curr_filtered[1].date = overview.df_curr_filtered[2].date
    /\ overview.num_orders_curr = 2

\* the RFM section of the Customer tab called calculate_rfm on current rows
RfmCalled ==
    /\ customer_tab.status = "ok"
    /\ filters.customers # <<>>
    /\ customer_tab.df_curr_filtered # <<>>

\* the customer groups of that call: the (Customer, Name) pairs of the rows
\* that have a name
RfmGroups ==
    {<<r.Customer, r.Name>> : r \in {x \in Range(customer_tab.df_curr_filtered) : x.Name # "NaN"}}

RfmMetrics == {"Recency", "Frequency", "Monetary"}

\* the value of a metric for a group, from the filtered current rows
RfmMetric(m, g) ==
    LET Of == SelectSeq(customer_tab.df_curr_filtered,
                        LAMBDA r : r.Customer = g[1] /\ r.Name = g[2])
        last == CHOOSE i \in 1..Len(Of) :
                    \A j \in 1..Len(Of) : Ordinal(Of[j].date) <= Ordinal(Of[i].date)
    IN  CASE m = "Recency" -> Ordinal(customer_tab.rfm.latest_date) - Ordinal(Of[last].date)
          [] m = "Frequency" -> Len(Of)
          [] m = "Monetary" -> SeqSum(Column(Of, LAMBDA r : r.ds))

RECURSIVE SeqOfSet(_)
SeqOfSet(S) ==
    IF S = {} THEN <<>>
    ELSE LET x == CHOOSE x \in S : TRUE IN <<x>> \o SeqOfSet(S \ {x})

\* the values of a metric, one per group
RfmColumn(m) == LET gs == SeqOfSet(RfmGroups) IN [i \in 1..Len(gs) |-> RfmMetric(m, gs[i])]

\* at least two distinct values, and two of the five quartile edges coincide
Tied(m) ==
    /\ Cardinality(Range(RfmColumn(m))) >= 2
    /\ Cardinality({quantile4(RfmColumn(m), k) : k \in 0..4}) < 5

\* all the values of the metric are one value (no group, or one group, included)
Degenerate(m) == Cardinality(Range(RfmColumn(m))) <= 1

\* scores in 1..4; a smaller recency never has the smaller score, a larger
\* frequency or monetary never has the smaller score
ScoresOrdered(rows) ==
    \A x \in Range(rows) :
        /\ {x.Recency_Score, x.Frequency_Score, x.Monetary_Score} \subseteq 1..4
        /\ \A y \in Range(rows) :
              /\ x.Recency < y.Recency => x.Recency_Score >= y.Recency_Score
              /\ x.Frequency > y.Frequency => x.Frequency_Score >= y.Frequency_Score
              /\ x.Monetary > y.Monetary => x.Monetary_Score >= y.Monetary_Score

\* the frame has one record for each customer group and no other
OneRecordPerGroup(rows) ==
    /\ {<<x.Customer, x.Name>> : x \in Range(rows)} = RfmGroups
    /\ Len(rows) = Cardinality(RfmGroups)

\* C13. RFM tie tolerance: when calculate_rfm is called and a metric has at
\* least two distinct values over the customer groups while ties make quartile
\* edges coincide, the call returns a frame with one record for every group,
\* every score in 1..4 and ordered consistently with its metric.
C13_TieTolerance ==
    (RfmCalled /\ \E m \in RfmMetrics : Tied(m)) =>
        /\ customer_tab.rfm.result.st = "frame"
        /\ OneRecordPerGroup(customer_tab.rfm.result.rows)
        /\ ScoresOrdered(customer_tab.rfm.result.rows)

\* three customer groups, two of them with the same monetary total, and
\* calculate_rfm returned None
C13_Witness ==
    /\ RfmCalled
    /\ Cardinality(RfmGroups) = 3
    /\ Tied("Monetary")
    /\ customer_tab.rfm.result = None
    /\ customer_tab.rfm.state = "none"

\* the record of the RFM table for customer c has the count, the sum and the
\* recency of the customer's filtered current rows
RfmRecordOf(c) ==
    LET Of == SelectSeq(customer_tab.df_curr_filtered, LAMBDA r : r.Customer = c)
        recs == {i \in 1..Len(customer_tab.rfm.rows) : customer_tab.rfm.rows[i].Customer = c}
    IN  /\ Cardinality(recs) = 1
        /\ \A i \in recs :
              /\ customer_tab.rfm.rows[i].Frequency = Len(Of)
              /\ customer_tab.rfm.rows[i].Monetary = SeqSum(Column(Of, LAMBDA r : r.ds))
              /\ \E k \in 1..Len(Of) :
                    /\ \A j \in 1..Len(Of) : Ordinal(Of[j].date) <= Ordinal(Of[k].date)
                    /\ customer_tab.rfm.rows[i].Recency =
                           Ordinal(customer_tab.rfm.latest_date) - Ordinal(Of[k].date)

\* C14. RFM per-customer metrics: whenever the Customer tab shows the RFM
\* table, every customer with a row in the filtered current dataset has exactly
\* one record in it, with frequency the number of the customer's filtered rows,
\* monetary the sum of their amounts and recency the days from the customer's
\* latest billing date to the reference date, also for rows without a name or
\* with differing names.
C14_RfmPerCustomer ==
    (RfmCalled /\ customer_tab.rfm.state = "table") =>
        \A c \in {r.Customer : r \in Range(customer_tab.df_curr_filtered)} : RfmRecordOf(c)

\* the RFM table is shown and customer 7, who has two filtered rows, one of
\* them without a name, has a record of frequency 1
C14_Witness ==
    /\ RfmCalled
    /\ customer_tab.rfm.state = "table"
    /\ Len(SelectSeq(customer_tab.df_curr_filtered, LAMBDA r : r.Customer = <<"7">>)) = 2
    /\ \E r \in Range(customer_tab.df_curr_filtered) : r.Customer = <<"7">> /\ r.Name = "NaN"
    /\ \E i \in 1..Len(customer_tab.rfm.rows) :
          /\ customer_tab.rfm.rows[i].Customer = <<"7">>
          /\ customer_tab.rfm.rows[i].Frequency = 1

\* C15. RFM quartile direction: in every frame calculate_rfm returns, of two
\* records the one with the smaller recency has a recency score at least the
\* other's, a larger frequency or monetary never has the smaller frequency or
\* monetary score, and every score is in 1..4.
C15_QuartileDirection ==
    (RfmCalled /\ customer_tab.rfm.result.st = "frame") =>
        ScoresOrdered(customer_tab.rfm.result.rows)

\* a result of three records with three recencies and three monetary totals,
\* the most recent record with recency score 4 and the least recent with 1
C15_Witness ==
    /\ RfmCalled
    /\ customer_tab.rfm.result.st = "frame"
    /\ Len(customer_tab.rfm.result.rows) = 3
    /\ \E x, y \in Range(customer_tab.rfm.result.rows) :
          /\ x.Recency < y.Recency
          /\ x.Recency_Score = 4 /\ y.Recency_Score = 1
          /\ x.Monetary # y.Monetary
          /\ x.Monetary_Score # y.Monetary_Score

RfmScore(m, x) ==
    CASE m = "Recency" -> x.Recency_Score
      [] m = "Frequency" -> x.Frequency_Score
      [] m = "Monetary" -> x.Monetary_Score

\* C16. RFM degenerate case: for each metric, when calculate_rfm is called and
\* all customer groups have the same value of the metric (a single group
\* included), the call returns a frame in which every record scores 1 on that
\* metric and has a segment code of three characters, the recency, frequency
\* and monetary scores in that order.
C16_DegenerateCase ==
    RfmCalled =>
        \A m \in RfmMetrics :
            Degenerate(m) =>
                /\ customer_tab.rfm.result.st = "frame"
                /\ \A x \in Range(customer_tab.rfm.result.rows) :
                      /\ RfmScore(m, x) = 1
                      /\ Len(x.RFM_Segment) = 3
                      /\ x.RFM_Segment = Digits(x.Recency_Score) \o Digits(x.Frequency_Score)
                                         \o Digits(x.Monetary_Score)

\* three customer groups of one row each, so all of frequency 1, and
\* calculate_rfm returned None
C16_Witness ==
    /\ RfmCalled
    /\ Cardinality(RfmGroups) = 3
    /\ Degenerate("Frequency")
    /\ ~Degenerate("Monetary")
    /\ customer_tab.rfm.result = None

\* the RFM section of the Customer tab computed its reference date
RfmReached ==
    /\ customer_tab.status = "ok"
    /\ filters.customers # <<>>

\* d is the latest billing date of the rows
IsMaxDate(d, rows) ==
    /\ \E r \in Range(rows) : r.date = d
    /\ \A r \in Range(rows) : Ordinal(r.date) <= Ordinal(d)

\* C17. RFM reference date: whenever the Customer tab computes RFM, the
\* reference date is the later of the latest billing dates of the previous and
\* of the current dataset, the latest billing date of the one dataset that has
\* rows when the other is empty, and the wall-clock date only when both are
\* empty.
C17_ReferenceDate ==
    RfmReached =>
        LET ref == customer_tab.rfm.latest_date
        IN  /\ (df_prev.rows # <<>> /\ df_curr.rows # <<>>) =>
                  /\ IsMaxDate(ref, df_prev.rows) \/ IsMaxDate(ref, df_curr.rows)
                  /\ \A r \in Range(df_prev.rows) \cup Range(df_curr.rows) :
                        Ordinal(r.date) <= Ordinal(ref)
            /\ (df_prev.rows = <<>> /\ df_curr.rows # <<>>) => IsMaxDate(ref, df_curr.rows)
            /\ (df_prev.rows # <<>> /\ df_curr.rows = <<>>) => IsMaxDate(ref, df_prev.rows)
            /\ (df_prev.rows = <<>> /\ df_curr.rows = <<>>) => ref = now

\* the previous dataset is empty, the current one is not, and the reference
\* date of the RFM table shown is the wall-clock date
C17_Witness ==
    /\ RfmReached
    /\ df_prev.rows = <<>>
    /\ df_curr.rows # <<>>
    /\ customer_tab.rfm.state = "table"
    /\ customer_tab.rfm.latest_date = now
    /\ ~IsMaxDate(now, df_curr.rows)

\* what the Customer tab puts on the page: the reference date itself is not
\* displayed, the recencies computed from it are
Displayed(tab) == [tab EXCEPT !.rfm.latest_date = NoRfm.latest_date]

\* C18. Determinism of a pass: the tables and metrics of a finished run are
\* those the pipeline gives on the same loaded datasets and filters at any
\* wall-clock date; no output depends on the date of the run.
C18_Determinism ==
    pc = "done" =>
        \A t \in Clocks :
            /\ summary = get_summary_info(df_prev, df_curr)
            /\ overview = plot_overview(df_prev.rows, df_curr.rows, filters)
            /\ product_tab = plot_product_analysis(df_prev.rows, df_curr.rows, filters)
            /\ Displayed(customer_tab) =
                   Displayed(plot_customer_analysis(df_prev.rows, df_curr.rows, filters, t))
            /\ tdv_tab = plot_tdv_analysis(df_prev.rows, df_curr.rows, filters)

\* a finished run on an empty previous dataset whose RFM table has other
\* recencies than the run on the same inputs at another date
C18_Witness ==
    /\ pc = "done"
    /\ df_prev.rows = <<>>
    /\ customer_tab.rfm.state = "table"
    /\ \E t \in Clocks :
          LET other == plot_customer_analysis(df_prev.rows, df_curr.rows, filters, t)
          IN  /\ other.rfm.state = "table"
              /\ other.rfm.rows # customer_tab.rfm.rows
              /\ other.customer_table = customer_tab.customer_table

\* C19. Failure isolation: once both datasets are loaded the run is never
\* stopped, whatever a panel did (a raise caught and reported by the panel, a
\* summary or an RFM computation that returned None): each tab has been run
\* when the next one starts, and the summary and the four tabs have all been
\* run at the end; and a Customer tab whose RFM computation returned nothing
\* still shows its customer table and its chart, without an RFM table.
C19_FailureIsolation ==
    /\ (df_prev.st = "frame" /\ df_curr.st = "frame") => pc # "stopped"
    /\ pc \in {"product", "customer", "tdv", "done"} => overview.status # "unset"
    /\ pc \in {"customer", "tdv", "done"} => product_tab.status # "unset"
    /\ pc \in {"tdv", "done"} => customer_tab.status # "unset"
    /\ pc = "done" => tdv_tab.status # "unset" /\ summary.st # "unset"
    /\ (RfmReached /\ customer_tab.rfm.state = "none") =>
          /\ customer_tab.customer_table # <<>>
          /\ {"customer_table", "chart"} \subseteq Range(customer_tab.shown)
          /\ "rfm_table" \notin Range(customer_tab.shown)

\* a finished run in which the Overview and Customer tabs raised on their
\* customer table and the Product tab, run in between, showed its table
C19_Witness ==
    /\ pc = "done"
    /\ summary.st = "frame"
    /\ overview.status = "error"
    /\ product_tab.status = "ok"
    /\ product_tab.product_table # <<>>
    /\ customer_tab.status = "error"
    /\ tdv_tab.status # "unset"

\* the number of distinct values of Get over the rows: the rows whose value
\* no earlier row has
DistinctCount(rows, Get(_)) ==
    Cardinality({i \in 1..Len(rows) : \A j \in 1..(i - 1) : Get(rows[j]) # Get(rows[i])})

\* the six values of the report for a dataset; a month is a month of a year
ReportOf(rows) ==
    <<Len(rows),
      DistinctCount(rows, LAMBDA r : <<r.date.y, r.date.m>>),
      DistinctCount(rows, LAMBDA r : r.Customer),
      SeqSum(Column(rows, LAMBDA r : r.ds)),
      DistinctCount(rows, LAMBDA r : r.Material),
      DistinctCount(SelectSeq(rows, LAMBDA r : r.tdv # "NaN"), LAMBDA r : r.tdv)>>

\* C21. Summary report: once the summary step has run on two loaded datasets,
\* there is no report exactly when one of the datasets has no row; otherwise
\* the report has six values per period, computed from that period's whole
\* validated dataset whatever the filters are: row count, distinct months
\* (of a year), distinct customers, sum of the amounts, distinct products,
\* distinct sales reps; and both datasets are still what the loader returned.
C21_SummaryReport ==
    summary.st # "unset" =>
        /\ summary.st = "none" <=> (df_prev.rows = <<>> \/ df_curr.rows = <<>>)
        /\ summary.st = "frame" =>
              /\ Len(summary.prev) = 6 /\ Len(summary.curr) = 6
              /\ summary.prev = ReportOf(df_prev.rows)
              /\ summary.curr = ReportOf(df_curr.rows)
        /\ df_prev = load_and_validate_data(prev_year_file).df
        /\ df_curr = load_and_validate_data(curr_year_file).df

\* a report on a previous dataset of two rows of January, of 2023 and of
\* 2024, counted as two months, of which the filters keep one row for the tabs
C21_Witness ==
    /\ pc = "done"
    /\ summary.st = "frame"
    /\ Len(df_prev.rows) = 2
    /\ df_prev.rows[1].date.m = df_prev.rows[2].date.m
    /\ df_prev.rows[1].date.y # df_prev.rows[2].date.y
    /\ summary.prev[1] = 2
    /\ summary.prev[2] = 2
    /\ summary.prev[3] = 1
    /\ Len(overview.df_prev_filtered) = 2
    /\ Len(overview.df_curr_filtered) < Len(df_curr.rows)

\* C22. Filter equivalence across tabs: at the end of a run the Overview,
\* Product, Customer and TDV tabs hold the same filtered previous rows and the
\* same filtered current rows, whatever the order in which a tab applied the
\* restrictions and whichever restriction it applied again before its chart;
\* the datasets are still what the loader returned and the filters what the
\* sidebar built.
C22_FilterEquivalence ==
    pc = "done" =>
        /\ \A tab \in {product_tab, tdv_tab} :
              /\ tab.df_prev_filtered = overview.df_prev_filtered
              /\ tab.df_curr_filtered = overview.df_curr_filtered
        /\ customer_tab.df_prev_filtered = overview.df_prev_filtered
        /\ customer_tab.df_curr_filtered = overview.df_curr_filtered
        /\ df_prev = load_and_validate_data(prev_year_file).df
        /\ df_curr = load_and_validate_data(curr_year_file).df
        /\ filters = build_filters(df_prev.rows, df_curr.rows, selection)

\* a finished run with a customer, a product and a sales-rep restriction, in
\* which every tab kept one of the two previous rows and the Product and
\* Customer tabs drew their chart
C22_Witness ==
    /\ pc = "done"
    /\ filters.customers # <<>>
    /\ filters.materials # <<>>
    /\ filters.tdvs # <<>>
    /\ Len(df_prev.rows) = 2
    /\ Len(tdv_tab.df_prev_filtered) = 1
    /\ Len(overview.df_prev_filtered) = 1
    /\ product_tab.status = "ok"
    /\ "chart" \in Range(product_tab.shown)
    /\ customer_tab.status = "ok"
    /\ "chart" \in Range(customer_tab.shown)

====
